---- MODULE Spec2Model ----
(***************************************************************************)
(* Model of the audio pipeline engine: ProcessService stages wired by a    *)
(* Manager into a chain of multiprocessing Queues (sources/tools.py), the  *)
(* three stage realisations (sources/ibm_realization.py) and the           *)
(* per-connection loop handle_connections (app.py).                        *)
(*                                                                         *)
(* A unit travelling through a Queue is a record [type, val, src]: type    *)
(* is the Python type of the payload ("bytes", "str" or "none"), val its   *)
(* content, and src the Client whose send() the unit descends from (a      *)
(* history tag, 0 for a literal built by the frontend).                    *)
(***************************************************************************)
EXTENDS Integers, Sequences, FiniteSets, TLC

\* ---------------------------------------------------------------- bounds
\* Units handed to send (all Clients together), Processes one Manager may
\* hold, and audio chunks the synthesis provider returns for one text.
MaxSend == 2
MaxWorkers == 4
MaxChunks == 1

\* Two Clients (two connections) are enough for every statement made here.
Clients == {1, 2}

\* ------------------------------------------------------------- payloads
Str(v, s) == [type |-> "str", val |-> v, src |-> s]
Bytes(v, s) == [type |-> "bytes", val |-> v, src |-> s]
NoneVal == [type |-> "none", val |-> "", src |-> 0]
EmptyBytes == Bytes("", 0)

\* Python truthiness of a payload: None, b'' and '' are falsy.
Falsy(d) == d.type = "none" \/ d.val = ""

\* The chains a Client is constructed from in this model.
Chains ==
  { <<"answer">>, <<"answer", "answer">>, <<"stt", "answer">>,
    <<"answer", "tts">>, <<"stt", "answer", "tts">> }
AppChain == <<"stt", "answer", "tts">>

\* Candidate lists the recognition provider hands to on_transcription: a
\* list of dicts, which normally carry the key 'transcript'.
HelloTranscript == << [transcript |-> "hello"] >>
Transcripts ==
  { <<>>, HelloTranscript, << [transcript |-> ""] >>,
    << [transcript |-> "hello"], [transcript |-> "yellow"] >> }

VARIABLES
  services,    \* services[c]: the wired chain of Client c (Manager.services)
  processes,   \* processes[c]: the worker handles, with each worker's state
  running,     \* running[c]: Client.running
  id,          \* id[c]: Client.id, 0 while c is not constructed
  queue,       \* queue[b]: content of the b-th Queue() ever allocated
  call,        \* call[c]: where c's caller is (idle or inside a blocking receive)
  last,        \* last[c]: what the last receive, __enter__ or __exit__
               \*   on c returned
  sent,        \* sent[c]: history of the units passed to send
  received,    \* received[c]: history of the units removed by receive
  fpc,         \* fpc[c]: position of the connection task of handle_connections
  data,        \* data[c]: the local variable data of handle_connections
  frames       \* frames[c]: the frames transmitted to the peer, in order

vars == << services, processes, running, id, queue, call, last, sent,
           received, fpc, data, frames >>

\* ---------------------------------------------------------------- Queue
\* Mutant of Put: the unit is inserted at the head (a LIFO Queue).
PutFront(q, b, x) == [q EXCEPT ![b] = <<x>> \o @]

Put(q, b, x) == [q EXCEPT ![b] = Append(@, x)]
Get(q, b) == [q EXCEPT ![b] = Tail(@)]
Empty(q, b) == q[b] = <<>>

\* ------------------------------------------------------------- Manager
\* The loop of Manager.__init__ over the first k services; nq is the number
\* of Queues that exist before the constructor runs. For key 0 the output
\* Queue is allocated before the input Queue.
\* Mutant of Wire: every service gets a fresh input Queue.
RECURSIVE WireFresh(_, _, _)
WireFresh(kinds, k, nq) ==
  IF k = 0 THEN <<>>
  ELSE Append(WireFresh(kinds, k - 1, nq),
              [kind |-> kinds[k],
               input_buffer |-> nq + 2 * k,
               output_buffer |-> nq + 2 * k - 1])

\* Mutant of Wire: only the first service gets its input Queue.
WireUnbound(kinds, k, nq) ==
  [i \in 1..k |->
     [kind |-> kinds[i],
      input_buffer |-> IF i = 1 THEN nq + 2 ELSE 0,
      output_buffer |-> nq + (IF i = 1 THEN 0 ELSE i) + 1]]

RECURSIVE Wire(_, _, _)
Wire(kinds, k, nq) ==
  IF k = 0 THEN <<>>
  ELSE LET prev == Wire(kinds, k - 1, nq)
           allocated == IF k = 1 THEN 0 ELSE k
           output_buffer == nq + allocated + 1
           input_buffer == IF k = 1 THEN output_buffer + 1
                           ELSE prev[k - 1].output_buffer
       IN Append(prev, [kind |-> kinds[k],
                        input_buffer |-> input_buffer,
                        output_buffer |-> output_buffer])

Constructed(c) == id[c] # 0
EntryBuffer(c) == services[c][1].input_buffer
ExitBuffer(c) == services[c][Len(services[c])].output_buffer

\* uuid1(): time based, so later calls give larger, distinct values.
Uuid1 == 1 + Cardinality({c \in Clients : id[c] # 0})

Outcome(op, outcome, val) == [op |-> op, outcome |-> outcome, val |-> val]

\* Mutant of ClientInit: the Queues are allocated once and shared by all
\* Managers (as with Queues created at class level).
ClientInitShared(c, kinds) ==
  /\ services' = [services EXCEPT ![c] = Wire(kinds, Len(kinds), 0)]
  /\ queue' = IF Len(queue) >= Len(kinds) + 1 THEN queue
              ELSE queue \o [i \in 1..(Len(kinds) + 1 - Len(queue)) |-> <<>>]
  /\ processes' = [processes EXCEPT ![c] = <<>>]
  /\ id' = [id EXCEPT ![c] = Uuid1]
  /\ running' = [running EXCEPT ![c] = FALSE]

\* Mutant of ClientInit: the constructor also spawns the workers.
ClientInitStarts(c, kinds) ==
  /\ services' = [services EXCEPT ![c] = Wire(kinds, Len(kinds), Len(queue))]
  /\ queue' = queue \o [i \in 1..(Len(kinds) + 1) |-> <<>>]
  /\ processes' = [processes EXCEPT
                     ![c] = [i \in 1..Len(kinds) |->
                              [stage |-> i,
                               pc |-> IF kinds[i] = "stt" THEN "listen"
                                      ELSE "get",
                               held |-> [type |-> "none", val |-> "",
                                         src |-> 0],
                               pending |-> FALSE, chunks |-> 0,
                               status |-> "running", err |-> ""]]]
  /\ id' = [id EXCEPT ![c] = Uuid1]
  /\ running' = [running EXCEPT ![c] = FALSE]

\* Client.__init__ (and Manager.__init__) on freshly constructed services.
ClientInit(c, kinds) ==
  /\ services' = [services EXCEPT ![c] = Wire(kinds, Len(kinds), Len(queue))]
  /\ queue' = queue \o [i \in 1..(Len(kinds) + 1) |-> <<>>]
  /\ processes' = [processes EXCEPT ![c] = <<>>]
  /\ id' = [id EXCEPT ![c] = Uuid1]
  /\ running' = [running EXCEPT ![c] = FALSE]

\* The state of a freshly started Process running services[c][i].act.
Worker(c, i) ==
  [stage |-> i,
   pc |-> IF services[c][i].kind = "stt" THEN "listen" ELSE "get",
   held |-> NoneVal, pending |-> FALSE, chunks |-> 0,
   status |-> "running", err |-> ""]

\* Mutant of ManagerStart: a Manager that already has workers spawns none.
ManagerStartOnce(c) ==
  processes' = [processes EXCEPT
                  ![c] = IF @ = <<>>
                         THEN [i \in 1..Len(services[c]) |-> Worker(c, i)]
                         ELSE @]

\* Manager.start: one Process per service, appended to processes.
ManagerStart(c) ==
  processes' = [processes EXCEPT
                  ![c] = @ \o [i \in 1..Len(services[c]) |-> Worker(c, i)]]

\* Manager.__enter__: the loop of start over again, then `return self`.
ManagerEnter(c) ==
  /\ processes' = [processes EXCEPT
                     ![c] = @ \o [i \in 1..Len(services[c]) |-> Worker(c, i)]]
  /\ last' = [last EXCEPT ![c] = Outcome("__enter__", "self", NoneVal)]

\* Manager.__exit__: `pass`, which returns None.
ManagerExit(c) ==
  /\ last' = [last EXCEPT ![c] = Outcome("__exit__", "none", NoneVal)]
  /\ UNCHANGED processes

\* Mutant of ManagerSend: the unit is put at the head of the entry Queue.
ManagerSendFront(c, x) ==
  queue' = [queue EXCEPT ![EntryBuffer(c)] = <<x>> \o @]

\* Manager.send
ManagerSend(c, x) == queue' = Put(queue, EntryBuffer(c), x)

\* Mutant of ReceiveOutcome: buffer.get(block, timeout) is called without the
\* test of buffer.empty(), so block=False raises queue.Empty on no data.
ReceiveOutcomeNoTest(c, op) ==
  IF ~Empty(queue, ExitBuffer(c))
    THEN Outcome(op, "value", Head(queue[ExitBuffer(c)]))
  ELSE Outcome(op, "timeout", NoneVal)

\* Mutant of ReceiveOutcome: an expired timeout is answered with None.
ReceiveOutcomeQuiet(c, op) ==
  IF ~Empty(queue, ExitBuffer(c))
    THEN Outcome(op, "value", Head(queue[ExitBuffer(c)]))
  ELSE Outcome(op, "nodata", NoneVal)

\* Manager.receive once the Queue has decided: block=False takes the head
\* if the exit Queue is not empty and returns None otherwise; a blocking
\* call returns the head, or raises queue.Empty when its timeout expires.
ReceiveOutcome(c, op) ==
  IF ~Empty(queue, ExitBuffer(c))
    THEN Outcome(op, "value", Head(queue[ExitBuffer(c)]))
  ELSE IF op = "receive_nb" THEN Outcome(op, "nodata", NoneVal)
  ELSE Outcome(op, "timeout", NoneVal)

\* Mutant of ManagerReceive: the head is returned but left in the Queue.
ManagerReceivePeek(c, op) ==
  LET r == ReceiveOutcome(c, op)
  IN /\ last' = [last EXCEPT ![c] = r]
     /\ queue' = queue
     /\ IF r.outcome = "value"
          THEN received' = [received EXCEPT ![c] = Append(@, r.val)]
          ELSE UNCHANGED received

ManagerReceive(c, op) ==
  LET r == ReceiveOutcome(c, op)
  IN /\ last' = [last EXCEPT ![c] = r]
     /\ IF r.outcome = "value"
          THEN /\ queue' = Get(queue, ExitBuffer(c))
               /\ received' = [received EXCEPT ![c] = Append(@, r.val)]
          ELSE UNCHANGED << queue, received >>

\* ------------------------------------------------------- API operations
\* What a caller (a test, or the websocket peer) hands to send(): audio
\* chunks for a chain that starts with recognition, bytes or text otherwise.
Messages(c) ==
  IF services[c] # <<>> /\ services[c][1].kind = "stt"
    THEN {Bytes("pcm", c)}
    ELSE {Bytes("pcm", c), Str("hi", c)}

\* The number of units handed to send so far, over all Clients.
RECURSIVE SumLen(_, _)
SumLen(f, S) ==
  IF S = {} THEN 0
  ELSE LET c == CHOOSE d \in S : TRUE IN Len(f[c]) + SumLen(f, S \ {c})
Inbound == SumLen(sent, Clients)

Idle(c) == Constructed(c) /\ call[c] = "idle" /\ fpc[c] = "none"

Construct(c, kinds) ==
  /\ ~Constructed(c)
  /\ fpc[c] = "none"
  /\ ClientInit(c, kinds)
  /\ UNCHANGED << call, last, sent, received, fpc, data, frames >>

Send(c, x) ==
  /\ Idle(c)
  /\ Inbound < MaxSend
  /\ ManagerSend(c, x)
  /\ sent' = [sent EXCEPT ![c] = Append(@, x)]
  /\ UNCHANGED << services, processes, running, id, call, last, received,
                  fpc, data, frames >>

\* Mutant of Start: start binds the entry of the chain to the Queue after
\* the first service.
StartRewire(c) ==
  /\ Idle(c)
  /\ Len(processes[c]) + Len(services[c]) <= MaxWorkers
  /\ ManagerStart(c)
  /\ services' = [services EXCEPT
                    ![c][1].input_buffer = services[c][1].output_buffer]
  /\ UNCHANGED << running, id, queue, call, last, sent, received,
                  fpc, data, frames >>

Start(c) ==
  /\ Idle(c)
  /\ Len(processes[c]) + Len(services[c]) <= MaxWorkers
  /\ ManagerStart(c)
  /\ UNCHANGED << services, running, id, queue, call, last, sent, received,
                  fpc, data, frames >>

\* with client: ... enters the context
Enter(c) ==
  /\ Idle(c)
  /\ Len(processes[c]) + Len(services[c]) <= MaxWorkers
  /\ ManagerEnter(c)
  /\ UNCHANGED << services, running, id, queue, call, sent, received,
                  fpc, data, frames >>

\* Mutant of Exit: leaving the context terminates the workers.
ExitTerminate(c) ==
  /\ Idle(c)
  /\ last' = [last EXCEPT ![c] = Outcome("__exit__", "none", NoneVal)]
  /\ processes' = [processes EXCEPT
                     ![c] = [w \in DOMAIN @ |->
                              [@[w] EXCEPT !.status = "dead"]]]
  /\ UNCHANGED << services, running, id, queue, call, sent, received,
                  fpc, data, frames >>

\* ... and leaves it
Exit(c) ==
  /\ Idle(c)
  /\ ManagerExit(c)
  /\ UNCHANGED << services, running, id, queue, call, sent, received,
                  fpc, data, frames >>

\* receive(block=False)
ReceiveNoBlock(c) ==
  /\ Idle(c)
  /\ ManagerReceive(c, "receive_nb")
  /\ UNCHANGED << services, processes, running, id, call, sent,
                  fpc, data, frames >>

\* receive(block=True, timeout): the caller enters buffer.get and waits.
ReceiveCall(c, op) ==
  /\ Idle(c)
  /\ call' = [call EXCEPT ![c] = op]
  /\ UNCHANGED << services, processes, running, id, queue, last, sent,
                  received, fpc, data, frames >>

\* buffer.get(True, timeout) finds a unit and returns it.
ReceiveReturn(c) ==
  /\ Constructed(c)
  /\ call[c] \in {"receive", "receive_timeout"}
  /\ ~Empty(queue, ExitBuffer(c))
  /\ ManagerReceive(c, call[c])
  /\ call' = [call EXCEPT ![c] = "idle"]
  /\ UNCHANGED << services, processes, running, id, sent, fpc, data, frames >>

\* The timeout of buffer.get(True, timeout) expires on an empty Queue.
ReceiveTimeout(c) ==
  /\ Constructed(c)
  /\ call[c] = "receive_timeout"
  /\ Empty(queue, ExitBuffer(c))
  /\ ManagerReceive(c, call[c])
  /\ call' = [call EXCEPT ![c] = "idle"]
  /\ UNCHANGED << services, processes, running, id, sent, fpc, data, frames >>

\* ---------------------------------------------------------- stage workers
Stage(c, w) == services[c][processes[c][w].stage]
Alive(c, w) ==
  /\ w \in DOMAIN processes[c]
  /\ processes[c][w].status = "running"
SetWorker(c, w, rec) == processes' = [processes EXCEPT ![c][w] = rec]

\* AnswerService.act: text = self.input_buffer.get()
AnswerGet(c, w) ==
  /\ Alive(c, w)
  /\ Stage(c, w).kind = "answer"
  /\ processes[c][w].pc = "get"
  /\ ~Empty(queue, Stage(c, w).input_buffer)
  /\ SetWorker(c, w, [processes[c][w] EXCEPT
                        !.pc = "put",
                        !.held = Head(queue[Stage(c, w).input_buffer])])
  /\ queue' = Get(queue, Stage(c, w).input_buffer)
  /\ UNCHANGED << services, running, id, call, last, sent, received,
                  fpc, data, frames >>

\* Mutant of AnswerText: the answer is put as str(text).
AnswerTextStr(text) == Str(text.val, text.src)

\* AnswerService.act: self.output_buffer.put(text) puts the unit it read.
AnswerText(text) == text

AnswerPut(c, w) ==
  /\ Alive(c, w)
  /\ Stage(c, w).kind = "answer"
  /\ processes[c][w].pc = "put"
  /\ queue' = Put(queue, Stage(c, w).output_buffer,
                  AnswerText(processes[c][w].held))
  /\ SetWorker(c, w, [processes[c][w] EXCEPT !.pc = "get", !.held = NoneVal])
  /\ UNCHANGED << services, running, id, call, last, sent, received,
                  fpc, data, frames >>

\* IbmSttService.act: the recognition session reads the audio source built
\* on input_buffer; chunks read since the last transcript are pending.
SttRead(c, w) ==
  /\ Alive(c, w)
  /\ Stage(c, w).kind = "stt"
  /\ ~Empty(queue, Stage(c, w).input_buffer)
  /\ SetWorker(c, w, [processes[c][w] EXCEPT
                        !.pending = TRUE,
                        !.held = Head(queue[Stage(c, w).input_buffer])])
  /\ queue' = Get(queue, Stage(c, w).input_buffer)
  /\ UNCHANGED << services, running, id, call, last, sent, received,
                  fpc, data, frames >>

\* IbmSttService.receive_transcript on a non-empty list:
\* transcript[0].get('transcript'), the text of the first candidate.
ReceiveTranscript(transcript, s) == Str(transcript[1].transcript, s)

\* Whether transcript[0] raises IndexError.
IndexError(transcript) == Len(transcript) = 0

\* IbmSttService.on_transcription, called by the provider for the pending
\* audio. On an empty list transcript[0] raises IndexError inside the
\* callback; whether the provider's dispatcher lets the exception end the
\* worker is not decided by this code, so both outcomes are possible.
OnTranscription(c, w, transcript, survives) ==
  /\ Alive(c, w)
  /\ Stage(c, w).kind = "stt"
  /\ processes[c][w].pending
  /\ IF IndexError(transcript)
       THEN /\ SetWorker(c, w, [processes[c][w] EXCEPT
                                  !.err = "IndexError",
                                  !.pending = FALSE,
                                  !.held = NoneVal,
                                  !.status = IF survives THEN "running"
                                             ELSE "dead"])
            /\ UNCHANGED queue
       ELSE /\ queue' = Put(queue, Stage(c, w).output_buffer,
                            ReceiveTranscript(transcript,
                                              processes[c][w].held.src))
            /\ SetWorker(c, w, [processes[c][w] EXCEPT
                                  !.pending = FALSE, !.held = NoneVal])
  /\ UNCHANGED << services, running, id, call, last, sent, received,
                  fpc, data, frames >>

\* recognize_using_websocket raises (provider or network failure): act ends.
SttFail(c, w) ==
  /\ Alive(c, w)
  /\ Stage(c, w).kind = "stt"
  /\ SetWorker(c, w, [processes[c][w] EXCEPT
                        !.status = "dead", !.err = "ProviderError",
                        !.pending = FALSE, !.held = NoneVal])
  /\ UNCHANGED << services, running, id, queue, call, last, sent, received,
                  fpc, data, frames >>

\* IbmTtsService.act: text = self.input_buffer.get()
TtsGet(c, w) ==
  /\ Alive(c, w)
  /\ Stage(c, w).kind = "tts"
  /\ processes[c][w].pc = "get"
  /\ ~Empty(queue, Stage(c, w).input_buffer)
  /\ SetWorker(c, w, [processes[c][w] EXCEPT
                        !.pc = "synth", !.chunks = 0,
                        !.held = Head(queue[Stage(c, w).input_buffer])])
  /\ queue' = Get(queue, Stage(c, w).input_buffer)
  /\ UNCHANGED << services, running, id, call, last, sent, received,
                  fpc, data, frames >>

\* The audio the synthesis provider returns for a text: bytes, not text.
Synth(text) == Bytes(text.val, text.src)

\* Mutant of OnAudioStream: the callback returns without the put.
OnAudioStreamDrop(c, w, max) ==
  /\ Alive(c, w)
  /\ Stage(c, w).kind = "tts"
  /\ processes[c][w].pc = "synth"
  /\ processes[c][w].held.type = "str"
  /\ processes[c][w].chunks < max
  /\ SetWorker(c, w, [processes[c][w] EXCEPT !.chunks = @ + 1])
  /\ UNCHANGED << services, running, id, queue, call, last, sent, received,
                  fpc, data, frames >>

\* IbmTtsService.on_audio_stream, called by the provider during
\* synthesize_using_websocket, at most max times for one text.
OnAudioStream(c, w, max) ==
  /\ Alive(c, w)
  /\ Stage(c, w).kind = "tts"
  /\ processes[c][w].pc = "synth"
  /\ processes[c][w].held.type = "str"
  /\ processes[c][w].chunks < max
  /\ queue' = Put(queue, Stage(c, w).output_buffer, Synth(processes[c][w].held))
  /\ SetWorker(c, w, [processes[c][w] EXCEPT !.chunks = @ + 1])
  /\ UNCHANGED << services, running, id, call, last, sent, received,
                  fpc, data, frames >>

\* synthesize_using_websocket returns; act loops back to input_buffer.get().
TtsReturn(c, w) ==
  /\ Alive(c, w)
  /\ Stage(c, w).kind = "tts"
  /\ processes[c][w].pc = "synth"
  /\ processes[c][w].chunks >= 1 \/ processes[c][w].held.type # "str"
  /\ SetWorker(c, w, [processes[c][w] EXCEPT
                        !.pc = "get", !.chunks = 0, !.held = NoneVal])
  /\ UNCHANGED << services, running, id, queue, call, last, sent, received,
                  fpc, data, frames >>

\* synthesize_using_websocket raises: the exception leaves act, the Process ends.
TtsFail(c, w) ==
  /\ Alive(c, w)
  /\ Stage(c, w).kind = "tts"
  /\ processes[c][w].pc = "synth"
  /\ SetWorker(c, w, [processes[c][w] EXCEPT
                        !.status = "dead", !.err = "ProviderError",
                        !.chunks = 0, !.held = NoneVal])
  /\ UNCHANGED << services, running, id, queue, call, last, sent, received,
                  fpc, data, frames >>

\* ------------------------------------------------- handle_connections
\* Connection tasks run on one event loop: a task is resumed only while
\* every other task is suspended (at `async for` or at `await send`).
Holding(c) == fpc[c] \in {"check", "poll"}
LoopFree(c) == \A d \in Clients \ {c} : ~Holding(d)

\* A connection is accepted: the services are built and wired (app.py 26-30)
\* and the task waits for the first message. Connections are numbered in
\* the order in which they are accepted.
FrontAccept(c) ==
  /\ fpc[c] = "none"
  /\ ~Constructed(c)
  /\ \A d \in Clients : d < c => Constructed(d)
  /\ LoopFree(c)
  /\ ClientInit(c, AppChain)
  /\ fpc' = [fpc EXCEPT ![c] = "await_msg"]
  /\ UNCHANGED << call, last, sent, received, data, frames >>

\* async for message in websocket: client.send(message)
FrontMessage(c, message) ==
  /\ fpc[c] = "await_msg"
  /\ LoopFree(c)
  /\ Inbound < MaxSend
  /\ ManagerSend(c, message)
  /\ sent' = [sent EXCEPT ![c] = Append(@, message)]
  /\ fpc' = [fpc EXCEPT ![c] = "check"]
  /\ UNCHANGED << services, processes, running, id, call, last, received,
                  data, frames >>

\* Mutant of FrontStart: the running flag is never set.
FrontStartNoFlag(c) ==
  /\ fpc[c] = "check"
  /\ IF ~running[c]
       THEN /\ ManagerStart(c)
            /\ UNCHANGED running
       ELSE UNCHANGED << running, processes >>
  /\ fpc' = [fpc EXCEPT ![c] = "poll"]
  /\ UNCHANGED << services, id, queue, call, last, sent, received,
                  data, frames >>

\* Mutant of FrontStart: a chain with a terminated worker is started again.
FrontStartRespawn(c) ==
  /\ fpc[c] = "check"
  /\ IF \/ ~running[c]
        \/ \E w \in DOMAIN processes[c] : processes[c][w].status = "dead"
       THEN /\ running' = [running EXCEPT ![c] = TRUE]
            /\ ManagerStart(c)
       ELSE UNCHANGED << running, processes >>
  /\ fpc' = [fpc EXCEPT ![c] = "poll"]
  /\ UNCHANGED << services, id, queue, call, last, sent, received,
                  data, frames >>

\* if not client.running: client.running = True; client.start()
FrontStart(c) ==
  /\ fpc[c] = "check"
  /\ IF ~running[c]
       THEN /\ running' = [running EXCEPT ![c] = TRUE]
            /\ ManagerStart(c)
       ELSE UNCHANGED << running, processes >>
  /\ fpc' = [fpc EXCEPT ![c] = "poll"]
  /\ UNCHANGED << services, id, queue, call, last, sent, received,
                  data, frames >>

\* Mutant of FrontData: the result of receive is transmitted as it is.
FrontDataRaw(d) == d

\* if not data: data = b''
FrontData(d) == IF Falsy(d) THEN EmptyBytes ELSE d

\* data = client.receive(False), then the substitution of b''
FrontPoll(c) ==
  /\ fpc[c] = "poll"
  /\ ManagerReceive(c, "receive_nb")
  /\ data' = [data EXCEPT ![c] = FrontData(ReceiveOutcome(c, "receive_nb").val)]
  /\ fpc' = [fpc EXCEPT ![c] = "send"]
  /\ UNCHANGED << services, processes, running, id, call, sent, frames >>

\* await websocket.send(data) completes
FrontTransmit(c) ==
  /\ fpc[c] = "send"
  /\ LoopFree(c)
  /\ frames' = [frames EXCEPT ![c] = Append(@, data[c])]
  /\ fpc' = [fpc EXCEPT ![c] = "await_msg"]
  /\ UNCHANGED << services, processes, running, id, queue, call, last, sent,
                  received, data >>

\* Mutant of FrontClose: the handler stops the Client when the stream ends.
FrontCloseStop(c) ==
  /\ fpc[c] = "await_msg"
  /\ LoopFree(c)
  /\ fpc' = [fpc EXCEPT ![c] = "closed"]
  /\ running' = [running EXCEPT ![c] = FALSE]
  /\ processes' = [processes EXCEPT
                     ![c] = [w \in DOMAIN @ |->
                              [@[w] EXCEPT !.status = "dead"]]]
  /\ UNCHANGED << services, id, queue, call, last, sent, received,
                  data, frames >>

\* The message stream ends: the handler returns, nothing is torn down.
FrontClose(c) ==
  /\ fpc[c] = "await_msg"
  /\ LoopFree(c)
  /\ fpc' = [fpc EXCEPT ![c] = "closed"]
  /\ UNCHANGED << services, processes, running, id, queue, call, last, sent,
                  received, data, frames >>

\* ------------------------------------------------------------------ spec
Init ==
  /\ services = [c \in Clients |-> <<>>]
  /\ processes = [c \in Clients |-> <<>>]
  /\ running = [c \in Clients |-> FALSE]
  /\ id = [c \in Clients |-> 0]
  /\ queue = <<>>
  /\ call = [c \in Clients |-> "idle"]
  /\ last = [c \in Clients |-> Outcome("none", "ok", NoneVal)]
  /\ sent = [c \in Clients |-> <<>>]
  /\ received = [c \in Clients |-> <<>>]
  /\ fpc = [c \in Clients |-> "none"]
  /\ data = [c \in Clients |-> NoneVal]
  /\ frames = [c \in Clients |-> <<>>]

\* The steps of the workers of c against the live providers.
WorkerStep(c) ==
  \E w \in 1..Len(processes[c]) :
    \/ AnswerGet(c, w)
    \/ AnswerPut(c, w)
    \/ SttRead(c, w)
    \/ \E t \in Transcripts, survives \in BOOLEAN :
         OnTranscription(c, w, t, survives)
    \/ SttFail(c, w)
    \/ TtsGet(c, w)
    \/ OnAudioStream(c, w, MaxChunks)
    \/ TtsReturn(c, w)
    \/ TtsFail(c, w)

\* A caller driving one Client through the Manager API.
Api(c, chains) ==
  \/ \E kinds \in chains : Construct(c, kinds)
  \/ \E x \in Messages(c) : Send(c, x)
  \/ Start(c)
  \/ ReceiveNoBlock(c)
  \/ \E op \in {"receive", "receive_timeout"} : ReceiveCall(c, op)
  \/ ReceiveReturn(c)
  \/ ReceiveTimeout(c)

Next == Api(1, Chains) \/ WorkerStep(1)

Spec == Init /\ [][Next]_vars

\* Connections served by handle_connections only.
Front(c) ==
  \/ FrontAccept(c)
  \/ \E m \in Messages(c) : FrontMessage(c, m)
  \/ FrontStart(c)
  \/ FrontPoll(c)
  \/ FrontTransmit(c)
  \/ FrontClose(c)

\* The providers replaced by stubs: recognition answers every audio with
\* "hello", synthesis echoes the text as bytes in one chunk, neither fails.
StubWorkerStep(c) ==
  \E w \in 1..Len(processes[c]) :
    \/ AnswerGet(c, w)
    \/ AnswerPut(c, w)
    \/ SttRead(c, w)
    \/ OnTranscription(c, w, HelloTranscript, TRUE)
    \/ TtsGet(c, w)
    \/ OnAudioStream(c, w, 1)
    \/ TtsReturn(c, w)

StubNext == Api(1, {AppChain}) \/ StubWorkerStep(1)

\* Every started Process is scheduled, and a blocked buffer.get returns
\* once a unit is in the Queue.
StubFairness ==
  /\ WF_vars(ReceiveReturn(1))
  /\ \A w \in 1..MaxWorkers :
       /\ WF_vars(AnswerGet(1, w))
       /\ WF_vars(AnswerPut(1, w))
       /\ WF_vars(SttRead(1, w))
       /\ WF_vars(OnTranscription(1, w, HelloTranscript, TRUE))
       /\ WF_vars(TtsGet(1, w))
       /\ WF_vars(OnAudioStream(1, w, 1))
       /\ WF_vars(TtsReturn(1, w))

StubSpec == Init /\ [][StubNext]_vars /\ StubFairness

\* One connection.
FrontNext == Front(1) \/ WorkerStep(1)

FrontSpec == Init /\ [][FrontNext]_vars

\* Two connections whose tasks interleave at their suspension points.
PairNext == \E c \in Clients : Front(c) \/ WorkerStep(c)

PairSpec == Init /\ [][PairNext]_vars

\* One Client driven through its API, used as a context manager as well.
CtxNext == Next \/ Enter(1) \/ Exit(1)

CtxSpec == Init /\ [][CtxNext]_vars

\* Every way this code drives a Client: through the API and the context
\* manager, or as the Client of a connection.
AllNext == CtxNext \/ Front(1)

AllSpec == Init /\ [][AllNext]_vars

\* ================================================================ claims
IdentityChain(c) == Constructed(c) /\ Len(services[c]) = 1
                    /\ services[c][1].kind = "answer"
Started(c) == Len(processes[c]) >= Len(services[c]) /\ Constructed(c)
Stalled(c) == \E w \in DOMAIN processes[c] : processes[c][w].status = "dead"

\* C1: on a started Client whose chain is one AnswerService, the blocking
\* receive that follows a single send(x) returns exactly x, and that receive
\* removes the unit from the exit Queue.
C1_SendReceiveIdentity ==
  [][\A c \in Clients :
       ( /\ IdentityChain(c) /\ Started(c)
         /\ Len(sent[c]) = 1 /\ received[c] = <<>>
         /\ call[c] \in {"receive", "receive_timeout"}
         /\ ReceiveReturn(c) )
       => /\ last'[c] = Outcome(call[c], "value", sent[c][1])
          /\ received'[c] = << sent[c][1] >>
          /\ queue'[ExitBuffer(c)] = Tail(queue[ExitBuffer(c)])
          /\ queue'[ExitBuffer(c)] = <<>>]_vars

C1_Witness ==
  /\ IdentityChain(1) /\ Started(1)
  /\ sent[1] = << Bytes("pcm", 1) >>
  /\ received[1] = sent[1]
  /\ last[1] = Outcome("receive", "value", Bytes("pcm", 1))
  /\ queue[ExitBuffer(1)] = <<>>

\* C2: whenever the caller is free to call it, receive(block=False) is
\* enabled; on an empty exit Queue it returns None (the no-data result)
\* without raising and leaves every Queue, the running flag, the chain and
\* the worker handles unchanged.
C2_NoBlockEmpty ==
  /\ [](\A c \in Clients : Idle(c) => ENABLED ReceiveNoBlock(c))
  /\ [][\A c \in Clients :
          (ReceiveNoBlock(c) /\ Empty(queue, ExitBuffer(c)))
          => /\ last'[c] = Outcome("receive_nb", "nodata", NoneVal)
             /\ call'[c] = "idle"
             /\ UNCHANGED << queue, running, processes, services >>]_vars

C2_Witness ==
  /\ last[1] = Outcome("receive_nb", "nodata", NoneVal)
  /\ Stalled(1)
  /\ Empty(queue, ExitBuffer(1))
  /\ sent[1] # <<>>

\* C7: receive(block=True, timeout=t) always ends: with the head of the exit
\* Queue if a unit is there before t expires, and otherwise with the
\* Timeout error (queue.Empty), which is neither a value nor None, and which
\* leaves every Queue, the running flag and the worker handles unchanged.
C7_TimeoutOutcome ==
  /\ [](\A c \in Clients :
          (Constructed(c) /\ call[c] = "receive_timeout")
          => ENABLED (ReceiveReturn(c) \/ ReceiveTimeout(c)))
  /\ [][\A c \in Clients :
          (call[c] = "receive_timeout" /\ call'[c] # call[c])
          => IF Empty(queue, ExitBuffer(c))
               THEN /\ last'[c] = Outcome("receive_timeout", "timeout", NoneVal)
                    /\ UNCHANGED << queue, running, processes, received >>
               ELSE /\ last'[c] = Outcome("receive_timeout", "value",
                                          Head(queue[ExitBuffer(c)]))
                    /\ queue' = [queue EXCEPT ![ExitBuffer(c)] = Tail(@)]]_vars

C7_Witness ==
  /\ last[1] = Outcome("receive_timeout", "timeout", NoneVal)
  /\ call[1] = "idle"
  /\ Started(1)
  /\ sent[1] # <<>>

\* The Queues bound to the services of c.
ChannelsOf(c) ==
  { services[c][i].input_buffer : i \in DOMAIN services[c] }
    \cup { services[c][i].output_buffer : i \in DOMAIN services[c] }

Wired(c) ==
  LET n == Len(services[c])
  IN /\ n >= 1
     /\ \A i \in 1..n :
          /\ services[c][i].input_buffer \in DOMAIN queue
          /\ services[c][i].output_buffer \in DOMAIN queue
     /\ \A i \in 1..(n - 1) :
          services[c][i].output_buffer = services[c][i + 1].input_buffer
     /\ Cardinality(ChannelsOf(c)) = n + 1

\* C8: after construction from n >= 1 fresh services every service has both
\* Queues bound, the output Queue of service i is the input Queue of service
\* i+1, the chain has exactly n+1 distinct Queues, send puts into the input
\* Queue of the first service and receive takes from the output Queue of the
\* last one.
C8_ChainWiring ==
  [][\A c \in Clients :
       /\ Constructed(c)' => Wired(c)'
       /\ \A x \in Messages(c) :
            Send(c, x) =>
              queue' = [queue EXCEPT
                          ![services[c][1].input_buffer] = Append(@, x)]
       /\ (ReceiveNoBlock(c) \/ ReceiveReturn(c) \/ ReceiveTimeout(c)) =>
            LET out == services[c][Len(services[c])].output_buffer
            IN IF queue[out] = <<>>
                 THEN queue' = queue /\ last'[c].outcome # "value"
                 ELSE /\ queue' = [queue EXCEPT ![out] = Tail(@)]
                      /\ last'[c].val = Head(queue[out])]_vars

C8_Witness ==
  /\ Constructed(1) /\ Len(services[1]) = 3 /\ Wired(1)
  /\ Len(sent[1]) = 2
  /\ received[1] # <<>>

\* C10: send is enabled whenever the caller is free (Client not started,
\* running or stalled); it appends data at the tail of the entry Queue and
\* changes no other Queue, nor the running flag, the chain or the handles.
C10_SendFrame ==
  /\ [](\A c \in Clients : \A x \in Messages(c) :
          (Idle(c) /\ Inbound < MaxSend) => ENABLED Send(c, x))
  /\ [][\A c \in Clients : \A x \in Messages(c) :
          Send(c, x) =>
            /\ queue' = [queue EXCEPT ![EntryBuffer(c)] = Append(@, x)]
            /\ UNCHANGED << running, processes, services, call, last >>]_vars

C10_Witness ==
  /\ Stalled(1)
  /\ Len(sent[1]) = 2
  /\ queue[EntryBuffer(1)] = sent[1]

\* C3: in handle_connections the k-th frame is transmitted after the k-th
\* message was pushed and before the next message is processed, so n
\* processed messages have produced exactly n frames; every frame is a unit
\* taken from the exit Queue or the empty payload b''.
C3_OneFramePerMessage ==
  \A c \in Clients :
    /\ Len(frames[c]) =
         Len(sent[c]) - (IF fpc[c] \in {"check", "poll", "send"} THEN 1 ELSE 0)
    /\ \A k \in DOMAIN frames[c] :
         \/ frames[c][k] = EmptyBytes
         \/ \E j \in DOMAIN received[c] : received[c][j] = frames[c][k]

C3_Witness ==
  /\ fpc[1] = "await_msg"
  /\ Len(sent[1]) = 2
  /\ Len(frames[1]) = 2
  /\ frames[1][1] = EmptyBytes
  /\ frames[1][2] = Bytes("hello", 1)

\* C4: with Clients driven by handle_connections only, whatever the number
\* of messages and the interleaving of the connection tasks, a Client has no
\* worker handle before its first message has been checked and exactly one
\* handle per service afterwards, never more: start ran at most once.
C4_StartOnce ==
  \A c \in Clients :
    /\ Len(processes[c]) \in {0, Len(services[c])}
    /\ running[c] <=> processes[c] # <<>>
    /\ processes[c] = <<>> <=>
         (sent[c] = <<>> \/ (Len(sent[c]) = 1 /\ fpc[c] = "check"))

C4_Witness ==
  /\ Len(sent[1]) = 1 /\ Len(sent[2]) = 1
  /\ fpc[1] = "send" /\ fpc[2] = "poll"
  /\ Len(processes[1]) = 3 /\ Len(processes[2]) = 3

\* C5: two Clients built from their own fresh services share no Queue, and
\* no unit sent to one Client (or derived from it by its stages) is ever
\* returned by a receive on the other.
C5_Isolation ==
  \A a \in Clients : \A b \in Clients \ {a} :
    /\ (Constructed(a) /\ Constructed(b)) =>
          ChannelsOf(a) \cap ChannelsOf(b) = {}
    /\ \A j \in DOMAIN received[b] : received[b][j].src # a
    /\ last[b].outcome = "value" => last[b].val.src = b

C5_Witness ==
  /\ Len(received[1]) = 1 /\ Len(received[2]) = 1
  /\ received[1][1] = Bytes("hello", 1)
  /\ received[2][1] = Bytes("hello", 2)

\* C6: an empty candidate list handed to IbmSttService.on_transcription
\* does not make the stage fail: no IndexError is raised in the callback and
\* the worker keeps running.
C6_EmptyTranscriptTolerated ==
  \A c \in Clients : \A w \in DOMAIN processes[c] :
    /\ processes[c][w].err # "IndexError"
    /\ (services[c][processes[c][w].stage].kind = "stt"
        /\ processes[c][w].err # "ProviderError")
       => processes[c][w].status = "running"

\* C9: chain [recognition stub "hello", AnswerService, synthesis stub echo],
\* workers started, an audio chunk sent: under weak fairness of the workers
\* a blocking receive eventually returns the bytes of "hello".
C9_HelloScenario ==
  ( /\ Started(1)
    /\ sent[1] # <<>>
    /\ received[1] = <<>>
    /\ call[1] = "receive" )
  ~> ( /\ call[1] = "idle"
       /\ last[1] = Outcome("receive", "value", Bytes("hello", 1)) )

C9_Witness ==
  /\ Started(1)
  /\ Len(sent[1]) = 1
  /\ received[1] = << Bytes("hello", 1) >>
  /\ last[1] = Outcome("receive", "value", Bytes("hello", 1))

\* A chain of AnswerService stages only.
PassChain(c) ==
  /\ Constructed(c)
  /\ \A i \in DOMAIN services[c] : services[c][i].kind = "answer"
StartedOnce(c) == Len(processes[c]) = Len(services[c])

\* The units worker w of c holds between its get and its put.
HeldBy(c, w) ==
  IF processes[c][w].pc = "put" THEN << processes[c][w].held >> ELSE <<>>

\* The units inside the chain of c from stage i to the exit, oldest first,
\* when each stage has the one worker processes[c][i].
RECURSIVE InFlight(_, _)
InFlight(c, i) ==
  IF i > Len(services[c]) THEN <<>>
  ELSE InFlight(c, i + 1)
         \o queue[services[c][i].output_buffer]
         \o (IF StartedOnce(c) THEN HeldBy(c, i) ELSE <<>>)

IsPrefix(s, t) == Len(s) <= Len(t) /\ \A k \in DOMAIN s : s[k] = t[k]

\* C11: on a chain of AnswerService stages whose workers were started at
\* most once, what receive has returned is a prefix of what was sent, and
\* the units received, those inside the chain and those waiting in the
\* entry Queue are together exactly the units sent, in order: nothing is
\* reordered, duplicated or lost.
C11_FifoPrefix ==
  \A c \in Clients :
    (PassChain(c) /\ (processes[c] = <<>> \/ StartedOnce(c)))
    => /\ IsPrefix(received[c], sent[c])
       /\ received[c] \o InFlight(c, 1) \o queue[EntryBuffer(c)] = sent[c]

C11_Witness ==
  /\ PassChain(1) /\ Len(services[1]) = 2 /\ StartedOnce(1)
  /\ sent[1] = << Str("hi", 1), Bytes("pcm", 1) >>
  /\ received[1] = sent[1]

\* The workers of c spawned for stage i, in whatever state they are now.
Consumers(c, i) == {w \in DOMAIN processes[c] : processes[c][w].stage = i}

\* C12: start is not idempotent. Whatever running says and however many
\* workers exist, each call appends one new worker per stage, in stage
\* order, behind the existing handles and leaves running alone; so the
\* handle list of a chain of n stages always holds k*n handles, k for
\* every stage, k being the number of calls so far.
C12_StartNotIdempotent ==
  /\ [](\A c \in Clients : \A i \in DOMAIN services[c] :
          Cardinality(Consumers(c, i)) * Len(services[c])
            = Len(processes[c]))
  /\ [](\A c \in Clients :
          (Idle(c) /\ Len(processes[c]) + Len(services[c]) <= MaxWorkers)
          => ENABLED (Start(c) /\ Len(processes'[c]) > Len(processes[c])))
  /\ [][\A c \in Clients :
          Start(c) =>
            /\ Len(processes'[c]) = Len(processes[c]) + Len(services[c])
            /\ SubSeq(processes'[c], 1, Len(processes[c])) = processes[c]
            /\ \A i \in DOMAIN services[c] :
                 processes'[c][Len(processes[c]) + i] = Worker(c, i)
            /\ running'[c] = running[c]]_vars

\* Two calls on a chain of two stages: four handles, and the two workers
\* of the first stage have each taken a unit from the shared entry Queue.
C12_Witness ==
  /\ Constructed(1) /\ Len(services[1]) = 2 /\ Len(processes[1]) = 4
  /\ \A w \in Consumers(1, 1) : processes[1][w].pc = "put"
  /\ Cardinality(Consumers(1, 1)) = 2

Dead(c, w) == w \in DOMAIN processes[c] /\ processes[c][w].status = "dead"

\* Every stage after the stage of worker w has an empty input Queue and
\* its workers are waiting in input_buffer.get().
DownstreamBlocked(c, w) ==
  \A v \in DOMAIN processes[c] :
    processes[c][v].stage > processes[c][w].stage
    => /\ Empty(queue, Stage(c, v).input_buffer)
       /\ processes[c][v].pc = "get"

\* C13: in a connection, a worker whose act was left by an exception is
\* terminated, and from then on no step of the connection handler or of a
\* worker changes it, adds a handle, or takes a unit from its stage's
\* input Queue or adds one to its stage's output Queue: units arriving at
\* the failed stage stay there. Once the stages after it have run dry,
\* their workers stay blocked in get forever.
C13_FailedStageStaysDown ==
  /\ [](\A c \in Clients : \A w \in DOMAIN processes[c] :
          processes[c][w].err = "ProviderError" => Dead(c, w))
  /\ [][\A c \in Clients : \A w \in DOMAIN processes[c] :
          Dead(c, w) =>
            /\ processes'[c][w] = processes[c][w]
            /\ Len(processes'[c]) = Len(processes[c])
            /\ services'[c] = services[c]
            /\ IsPrefix(queue[Stage(c, w).input_buffer],
                        queue'[Stage(c, w).input_buffer])
            /\ Len(queue'[Stage(c, w).output_buffer])
                 <= Len(queue[Stage(c, w).output_buffer])
            /\ (DownstreamBlocked(c, w) => DownstreamBlocked(c, w)')]_vars

\* The first stage failed before reading anything: both messages of the
\* connection wait in the entry Queue, the later stages are blocked, and
\* both iterations have been answered.
C13_Witness ==
  /\ Dead(1, 1) /\ DownstreamBlocked(1, 1)
  /\ Len(sent[1]) = 2 /\ queue[EntryBuffer(1)] = sent[1]
  /\ Len(frames[1]) = 2 /\ fpc[1] = "await_msg"

\* A worker of c is terminated, nothing is left in the chain after its
\* stage, and the handler holds no unit it has yet to transmit.
Drained(c) ==
  /\ \E w \in DOMAIN processes[c] :
       /\ Dead(c, w)
       /\ DownstreamBlocked(c, w)
       /\ Empty(queue, Stage(c, w).output_buffer)
  /\ Empty(queue, ExitBuffer(c))
  /\ fpc[c] = "send" => data[c] = EmptyBytes

\* C14: after a worker fault the handler loop goes on. Once the units
\* after the failed stage are drained the chain stays drained, the loop
\* can always take its next step, every receive(False) finds nothing
\* without raising, and every frame transmitted is b''. No frame is ever
\* anything but bytes: a fault is never reported to the peer.
C14_EmptyFramesAfterFault ==
  /\ [](\A c \in Clients : \A k \in DOMAIN frames[c] :
          frames[c][k].type = "bytes")
  /\ [](\A c \in Clients : Drained(c) =>
          /\ fpc[c] = "await_msg" /\ Inbound < MaxSend
               => ENABLED FrontMessage(c, Bytes("pcm", c))
          /\ fpc[c] = "check" => ENABLED FrontStart(c)
          /\ fpc[c] = "poll" => ENABLED FrontPoll(c)
          /\ fpc[c] = "send" => ENABLED FrontTransmit(c))
  /\ [][\A c \in Clients : Drained(c) =>
          /\ Drained(c)'
          /\ FrontPoll(c) => /\ last'[c].outcome = "nodata"
                             /\ data'[c] = EmptyBytes
          /\ FrontTransmit(c) => frames'[c] = Append(frames[c], EmptyBytes)
       ]_vars

\* The first message was answered with audio; then a worker failed, the
\* chain drained, and the second message was answered with b''.
C14_Witness ==
  /\ Drained(1) /\ Len(frames[1]) = 2
  /\ frames[1][1] = Bytes("hello", 1)
  /\ frames[1][2] = EmptyBytes

\* C15: constructing the Client of a connection wires the chain and does
\* nothing else: right after it the chain is wired, its Queues are empty,
\* there are no handles and running is False. While the connection has had
\* no message it has no worker; its workers appear in the handler step
\* that follows the send of its first message, when that message is
\* already in the entry Queue.
C15_ConstructionOnlyWires ==
  /\ [](\A c \in Clients :
          sent[c] = <<>> => processes[c] = <<>> /\ ~running[c])
  /\ [][\A c \in Clients :
          /\ FrontAccept(c) =>
               /\ Wired(c)'
               /\ \A b \in ChannelsOf(c)' : queue'[b] = <<>>
               /\ processes'[c] = <<>>
               /\ ~running'[c]
          /\ (processes[c] = <<>> /\ processes'[c] # <<>>) =>
               /\ FrontStart(c)
               /\ Len(sent[c]) = 1
               /\ queue[EntryBuffer(c)] = sent[c]
               /\ queue' = queue]_vars

\* The first message is in the entry Queue and has just met its workers.
C15_Witness ==
  /\ fpc[1] = "poll" /\ Len(sent[1]) = 1
  /\ queue[EntryBuffer(1)] = sent[1]
  /\ Len(processes[1]) = Len(services[1])
  /\ \A w \in DOMAIN processes[1] : processes[1][w] = Worker(1, w)

\* Both Queues of a service are set (neither is None).
Bound(s) == s.input_buffer \in DOMAIN queue /\ s.output_buffer \in DOMAIN queue

\* C16: every stage of a constructed Manager has both Queues bound, every
\* worker runs a stage of a constructed Manager, workers are added by
\* start (called directly or by the connection handler) or by __enter__
\* only, and a binding once made is never changed.
C16_BoundBeforeRun ==
  /\ [](\A c \in Clients :
          /\ Constructed(c) => \A i \in DOMAIN services[c] : Bound(services[c][i])
          /\ \A w \in DOMAIN processes[c] :
               /\ Constructed(c)
               /\ processes[c][w].stage \in DOMAIN services[c]
               /\ Bound(Stage(c, w)))
  /\ [][\A c \in Clients :
          /\ Len(processes'[c]) > Len(processes[c])
               => Constructed(c) /\ (Start(c) \/ Enter(c) \/ FrontStart(c))
          /\ \A i \in DOMAIN services[c] :
               /\ i \in DOMAIN services'[c]
               /\ services'[c][i].input_buffer = services[c][i].input_buffer
               /\ services'[c][i].output_buffer
                    = services[c][i].output_buffer]_vars

\* Workers of a three-stage chain spawned by __enter__ are at work.
C16_Witness ==
  /\ Len(services[1]) = 3 /\ Len(processes[1]) = 3
  /\ last[1].op = "__enter__"
  /\ \E w \in DOMAIN processes[1] : processes[1][w].pc \notin {"get", "listen"}

\* C17: the topology is fixed at construction. No step taken on a
\* constructed Client (send, receive, start, __enter__, __exit__, a worker
\* step or failure, a step of the connection handler) changes its ordered
\* list of services or a Queue binding, changes its id, or removes a Queue.
C17_TopologyFixed ==
  [][\A c \in Clients :
       Constructed(c) =>
         /\ services'[c] = services[c]
         /\ id'[c] = id[c]
         /\ DOMAIN queue \subseteq DOMAIN queue'
    ]_vars

\* A connection after messages, a start, worker steps, a worker failure,
\* receives and frames: its chain is the one its constructor wired.
C17_Witness ==
  /\ services[1] = Wire(AppChain, 3, 0)
  /\ Dead(1, 3) /\ running[1]
  /\ Len(sent[1]) = 2 /\ Len(received[1]) >= 1 /\ Len(frames[1]) = 2

\* C18: nothing stops a Client. running, once True, stays True; handles
\* are only ever appended; a worker's record changes in that worker's own
\* steps and nowhere else, so a worker ends by its own fault only; and the
\* step in which the message stream of a connection ends changes neither
\* running, nor the workers, nor a Queue, after which the connection
\* handler never runs again.
C18_NeverStopped ==
  [][\A c \in Clients :
       /\ running[c] => running'[c]
       /\ Len(processes'[c]) >= Len(processes[c])
       /\ SubSeq(processes'[c], 1, Len(processes[c])) # processes[c]
            => WorkerStep(c)
       /\ FrontClose(c) => UNCHANGED << processes, running, queue >>
       /\ fpc[c] = "closed" => fpc'[c] = "closed"]_vars

\* The connection is closed and its workers are still at work on a unit.
C18_Witness ==
  /\ fpc[1] = "closed" /\ running[1]
  /\ \A w \in DOMAIN processes[1] : Alive(1, w)
  /\ processes[1][3].pc = "synth"
  /\ queue[EntryBuffer(1)] # <<>>

Truthy(d) == ~Falsy(d)
NonEmptyFrame(d) == d # EmptyBytes

\* The frames of c, with the one the handler is about to transmit.
Outbound(c) == frames[c] \o (IF fpc[c] = "send" THEN << data[c] >> ELSE <<>>)

\* C19: in the connection handler each iteration takes at most the head of
\* the exit Queue, and takes it out; what it then transmits is that unit,
\* or b'' if the unit is falsy or there was none; units leave the exit
\* Queue in this step only. So the non-empty frames are the truthy units
\* taken from the exit Queue, each once, unchanged and in order, and never
\* more units are taken than iterations were run.
C19_ExitUnitsOnceInOrder ==
  /\ [](\A c \in Clients :
          /\ SelectSeq(Outbound(c), NonEmptyFrame)
               = SelectSeq(received[c], Truthy)
          /\ Len(received[c]) <= Len(Outbound(c)))
  /\ [][\A c \in Clients :
          /\ FrontPoll(c) =>
               IF Empty(queue, ExitBuffer(c))
                 THEN queue' = queue /\ data'[c] = EmptyBytes
                 ELSE /\ queue' = [queue EXCEPT ![ExitBuffer(c)] = Tail(@)]
                      /\ data'[c] = IF Falsy(Head(queue[ExitBuffer(c)]))
                                      THEN EmptyBytes
                                      ELSE Head(queue[ExitBuffer(c)])
          /\ FrontTransmit(c) =>
               frames'[c] = Append(frames[c], data[c]) /\ queue' = queue
          /\ (Constructed(c) /\ Len(queue'[ExitBuffer(c)])
                                  < Len(queue[ExitBuffer(c)]))
               => FrontPoll(c)]_vars

\* Two units were taken from the exit Queue: audio, transmitted as it is,
\* and empty audio, transmitted as b''.
C19_Witness ==
  /\ received[1] = << Bytes("hello", 1), Bytes("", 1) >>
  /\ frames[1] = << Bytes("hello", 1), EmptyBytes >>

\* C20: __enter__ does what start does: it appends one fresh worker per
\* stage behind the existing handles, whatever running says and however
\* many workers exist, and leaves running, the chain and the Queues alone.
\* __exit__ changes neither the handles, nor a worker, nor running, nor
\* the chain, nor a Queue.
C20_EnterIsStartExitIsNothing ==
  /\ [](\A c \in Clients :
          (Idle(c) /\ Len(processes[c]) + Len(services[c]) <= MaxWorkers)
          => ENABLED (Enter(c) /\ Len(processes'[c]) > Len(processes[c])))
  /\ [](\A c \in Clients : Idle(c) => ENABLED Exit(c))
  /\ [][\A c \in Clients :
          /\ Enter(c) =>
               /\ ManagerStart(c)
               /\ UNCHANGED << running, services, queue, id >>
          /\ Exit(c) =>
               UNCHANGED << processes, running, services, queue, id >>
       ]_vars

\* The context was left while two sets of workers were running; they are
\* all alive and one of them holds a unit.
C20_Witness ==
  /\ last[1].op = "__exit__"
  /\ Len(services[1]) = 2 /\ Len(processes[1]) = 4
  /\ \A w \in DOMAIN processes[1] : Alive(1, w)
  /\ \E w \in DOMAIN processes[1] : processes[1][w].pc = "put"
====
